---- MODULE Spec2Model ----
(***************************************************************************)
(* Model of the ChaosBench data-ingestion scripts:                         *)
(*   scripts/download_s2s.py   (sparse date scheduler + S2S pipeline)      *)
(*   scripts/download_era5.py  (ERA5 download pipeline)                    *)
(*   scripts/process_atmos.py  (ERA5 process_atmos pipeline)               *)
(*                                                                         *)
(* A date string 'YYYY-MM-DD' is modelled as the tuple <<y, m, d>>; a      *)
(* datetime object is modelled as its proleptic Gregorian ordinal.         *)
(***************************************************************************)
EXTENDS Integers, Sequences, FiniteSets, TLC

(***************************************************************************)
(* Calendar arithmetic (datetime.strptime / strftime / timedelta and       *)
(* calendar.monthrange as used by the scripts).                            *)
(***************************************************************************)
isleap(y) == (y % 4 = 0) /\ ((y % 100 # 0) \/ (y % 400 = 0))

DAYS_IN_MONTH == <<31, 28, 31, 30, 31, 30, 31, 31, 30, 31, 30, 31>>

DAYS_BEFORE_MONTH == <<0, 31, 59, 90, 120, 151, 181, 212, 243, 273, 304, 334>>

\* variant of monthrange: February always has 28 days
monthrange_no_leap(y, m) == DAYS_IN_MONTH[m]

\* calendar.monthrange(year, month)[1]
monthrange(y, m) == DAYS_IN_MONTH[m] + (IF m = 2 /\ isleap(y) THEN 1 ELSE 0)

days_before_year(y) ==
    LET p == y - 1 IN p * 365 + (p \div 4) - (p \div 100) + (p \div 400)

days_before_month(y, m) ==
    DAYS_BEFORE_MONTH[m] + (IF m > 2 /\ isleap(y) THEN 1 ELSE 0)

\* datetime.strptime(s, '%Y-%m-%d'): date string -> datetime (ordinal)
strptime(s) == days_before_year(s[1]) + days_before_month(s[1], s[2]) + s[3]

\* datetime.strftime('%Y-%m-%d'): datetime (ordinal) -> date string
strftime(n) ==
    LET n0   == n - 1
        n400 == n0 \div 146097
        r400 == n0 % 146097
        n100 == r400 \div 36524
        r100 == r400 % 36524
        n4   == r100 \div 1461
        r4   == r100 % 1461
        n1   == r4 \div 365
        r1   == r4 % 365
        year == n400 * 400 + 1 + n100 * 100 + n4 * 4 + n1
        leap == (n1 = 3) /\ ((n4 # 24) \/ (n100 = 3))
        m0   == (r1 + 50) \div 32
        pre0 == DAYS_BEFORE_MONTH[m0] + (IF m0 > 2 /\ leap THEN 1 ELSE 0)
        month == IF pre0 > r1 THEN m0 - 1 ELSE m0
        pre  == IF pre0 > r1
                THEN pre0 - (DAYS_IN_MONTH[month]
                             + (IF month = 2 /\ leap THEN 1 ELSE 0))
                ELSE pre0
    IN  IF n1 = 4 \/ n100 = 4
        THEN <<year - 1, 12, 31>>
        ELSE <<year, month, r1 - pre + 1>>

(***************************************************************************)
(* _increment_days(all_dates, end_date)                                    *)
(***************************************************************************)
\* variant of increments0: the increments in the other order
increments0_swapped == <<4, 3>>

\* the increments list is created afresh by every call
increments0 == <<3, 4>>

\* variant of loop_body: the loop runs while current_date < end_date
loop_body_strict(st, end_date) ==
    IF st.current_date < end_date
    THEN LET increment_value == Head(st.increments)
             next_date       == st.current_date + increment_value
         IN  [all_dates    |-> Append(st.all_dates, strftime(next_date)),
              increments   |-> Append(Tail(st.increments), increment_value),
              current_date |-> next_date]
    ELSE st

\* one evaluation of the while condition followed, when it holds, by the
\* loop body: pop the first increment, advance, append the date, re-add
loop_body(st, end_date) ==
    IF st.current_date <= end_date
    THEN LET increment_value == Head(st.increments)
             next_date       == st.current_date + increment_value
         IN  [all_dates    |-> Append(st.all_dates, strftime(next_date)),
              increments   |-> Append(Tail(st.increments), increment_value),
              current_date |-> next_date]
    ELSE st

RECURSIVE while_loop(_, _, _)
\* the while loop, iterated until its condition fails.  n bounds the number
\* of iterations still possible (every iteration advances current_date by
\* at least one day); the iterations are split in halves so that the
\* evaluation depth stays logarithmic in the number of days.
while_loop(st, end_date, n) ==
    IF st.current_date > end_date \/ n <= 0 THEN st
    ELSE IF n = 1 THEN loop_body(st, end_date)
    ELSE while_loop(while_loop(st, end_date, n \div 2), end_date,
                    n - (n \div 2))

increment_days(all_dates, end_date) ==
    LET start_date == all_dates[1]
        st0 == [all_dates    |-> all_dates,
                increments   |-> increments0,
                current_date |-> strptime(start_date)]
        e   == strptime(end_date)
    IN  while_loop(st0, e, e - st0.current_date + 1).all_dates

(***************************************************************************)
(* State.                                                                  *)
(***************************************************************************)
VARIABLES
    \* --- inputs and results of the calls of _increment_days -------------
    s_start,            \* the start dates of the two successive calls
    s_end,              \* end_date, shared by the two calls
    s_out,              \* the lists returned so far, in call order
    \* --- configuration and arguments of a pipeline script ---------------
    script,             \* "s2s" | "era5" | "atmos"
    s2s_name,           \* args.s2s_name
    YEARS,              \* config.YEARS / config.ERA5_YEARS
    MONTHS,             \* config.MONTHS
    EXCEPTIONS,         \* config.ECMWF_/UKMO_/CMA_EXCEPTIONS
    n_param_level,      \* len(config.S2S_PARAM_LEVEL)
    \* --- the output directory ------------------------------------------
    fs,
    \* --- the running process --------------------------------------------
    pc, yi, mi,         \* position in the year/month loops
    date_str, is_exception, temp_files, ds, n_idx,
    \* --- history of the current run and of earlier runs -----------------
    retrieved,          \* windows retrieved by the current run
    skipped,            \* windows skipped by the current run
    completed,          \* windows some run has processed to completion
    completed_before,   \* value of completed when the current run started
    last_request,       \* the retrieval requests of the current window
    last_plan,          \* the last skip decision and what it saw
    written             \* keys of the partitions written for the window

sched_vars == <<s_start, s_end, s_out>>

cfg_vars == <<script, s2s_name, YEARS, MONTHS, EXCEPTIONS, n_param_level>>

run_vars == <<fs, pc, yi, mi, date_str, is_exception, temp_files, ds, n_idx,
              retrieved, skipped, completed, completed_before, last_request,
              last_plan, written>>

vars == <<sched_vars, cfg_vars, run_vars>>

(***************************************************************************)
(* Bounds of the model.                                                    *)
(***************************************************************************)
\* the end date of a scheduler call is at most MaxSpan days after a start
MaxSpan == 27

\* the variable-level map has between 1 and MaxParams entries
MaxParams == 4

None == <<>>

NoWin == <<0, 0>>

NoDay == <<0, 0, 0>>

\* no skip decision taken yet
NoPlan == [w |-> NoWin, skipped |-> FALSE, had_partition |-> FALSE]

(***************************************************************************)
(* The sparse date scheduler on its own: two successive calls, as in       *)
(* main (ECMWF call, then CMA call), on inputs drawn from bounded sets.    *)
(***************************************************************************)
ECMWF_START == <<2016, 1, 4>>

CMA_START == <<2019, 12, 2>>

END_DATE == <<2023, 12, 31>>

StartDates ==
    {ECMWF_START, CMA_START, <<2016, 1, 9>>, <<2016, 2, 22>>,
     <<2019, 12, 20>>, <<2023, 12, 25>>}

EndDates(start) ==
    {strftime(strptime(start) + k) : k \in 0..MaxSpan} \cup {END_DATE}

IdleRun ==
    /\ fs = {} /\ pc = "idle" /\ yi = 0 /\ mi = 0
    /\ date_str = None /\ is_exception = FALSE /\ temp_files = <<>>
    /\ ds = None /\ n_idx = 0
    /\ retrieved = {} /\ skipped = {} /\ completed = {}
    /\ completed_before = {} /\ last_request = <<>> /\ last_plan = NoPlan
    /\ written = <<>>

SchedInit ==
    /\ \E a \in StartDates, b \in StartDates :
          /\ s_start = <<a, b>>
          /\ s_end \in EndDates(a)
    /\ s_out = <<>>
    /\ script = "sched" /\ s2s_name = "none" /\ YEARS = <<>> /\ MONTHS = <<>>
    /\ EXCEPTIONS = <<>> /\ n_param_level = 0
    /\ IdleRun

\* all_ecmwf_dates = _increment_days(all_ecmwf_dates, end_date)
CallFirst ==
    /\ script = "sched" /\ Len(s_out) = 0
    /\ s_out' = <<increment_days(<<s_start[1]>>, s_end)>>
    /\ UNCHANGED <<s_start, s_end, cfg_vars, run_vars>>

\* all_cma_dates = _increment_days(all_cma_dates, end_date)
CallSecond ==
    /\ script = "sched" /\ Len(s_out) = 1
    /\ s_out' = Append(s_out, increment_days(<<s_start[2]>>, s_end))
    /\ UNCHANGED <<s_start, s_end, cfg_vars, run_vars>>

SchedNext == CallFirst \/ CallSecond

SpecSched == SchedInit /\ [][SchedNext]_vars

(***************************************************************************)
(* Configuration (config.py): provider names, exception tables, windows.   *)
(***************************************************************************)
S2S_CENTERS == {"ukmo", "ncep", "cma", "ecmwf"}

\* the year/month lists of a configuration
WindowChoices ==
    { <<<<2016>>, <<1, 2>>>>, <<<<2019>>, <<11, 12>>>>, <<<<2023>>, <<2>>>> }

\* an explicit date string of an exception table: slash-joined dates
ExplicitDates(key) ==
    [kind |-> "list", dates |-> <<<<key[1], key[2], 2>>, <<key[1], key[2], 9>>>>]

\* the exception tables of a configuration: either empty, or with an entry
\* for the first window
ExceptionChoices(years, months) ==
    LET key == <<years[1], months[1]>>
        tbl == [k \in {key} |-> ExplicitDates(k)]
    IN  { [ecmwf |-> <<>>, ukmo |-> <<>>, cma |-> <<>>],
          [ecmwf |-> tbl, ukmo |-> tbl, cma |-> tbl] }

\* the exception table the script consults for a provider (ncep has none)
ExceptionTable(name) ==
    CASE name = "ecmwf" -> EXCEPTIONS.ecmwf
      [] name = "ukmo"  -> EXCEPTIONS.ukmo
      [] name = "cma"   -> EXCEPTIONS.cma
      [] OTHER          -> <<>>

(***************************************************************************)
(* download_s2s.main: the date sequences, built once per run.              *)
(***************************************************************************)
all_ecmwf_dates == increment_days(<<ECMWF_START>>, END_DATE)

all_cma_dates == increment_days(<<CMA_START>>, END_DATE)

\* [d for d in dates if f'{year}-{month}' in d]
curr_mmyy_dates(dates, year, month) ==
    SelectSeq(dates, LAMBDA d : d[1] = year /\ d[2] = month)

\* "/".join(dates)
JoinDates(dates) == [kind |-> "list", dates |-> dates]

\* f"{year}-{month}-01/to/{year}-{month}-{num_days}"
DenseRange(year, month, num_days) ==
    [kind |-> "range", dates |-> <<<<year, month, 1>>, <<year, month, num_days>>>>]

\* variant of DateSelector: the generated dates are consulted before the
\* exception tables
DateSelector_dates_first(name, year, month, exc) ==
    LET key      == <<year, month>>
        num_days == monthrange(year, month)
        ecmwf    == curr_mmyy_dates(all_ecmwf_dates, year, month)
        cma      == curr_mmyy_dates(all_cma_dates, year, month)
    IN  IF name = "ecmwf" /\ ecmwf # <<>>
        THEN [date_str |-> JoinDates(ecmwf), is_exception |-> TRUE]
        ELSE IF name = "ecmwf" /\ key \in DOMAIN exc.ecmwf
        THEN [date_str |-> exc.ecmwf[key], is_exception |-> TRUE]
        ELSE IF name = "ukmo" /\ key \in DOMAIN exc.ukmo
        THEN [date_str |-> exc.ukmo[key], is_exception |-> TRUE]
        ELSE IF name = "cma" /\ cma # <<>>
        THEN [date_str |-> JoinDates(cma), is_exception |-> TRUE]
        ELSE IF name = "cma" /\ key \in DOMAIN exc.cma
        THEN [date_str |-> exc.cma[key], is_exception |-> TRUE]
        ELSE [date_str |-> DenseRange(year, month, num_days),
              is_exception |-> FALSE]

\* the if/elif chain that constructs date_str and is_exception
DateSelector(name, year, month, exc) ==
    LET key      == <<year, month>>
        num_days == monthrange(year, month)
        ecmwf    == curr_mmyy_dates(all_ecmwf_dates, year, month)
        cma      == curr_mmyy_dates(all_cma_dates, year, month)
    IN  IF name = "ecmwf" /\ key \in DOMAIN exc.ecmwf
        THEN [date_str |-> exc.ecmwf[key], is_exception |-> TRUE]
        ELSE IF name = "ecmwf" /\ ecmwf # <<>>
        THEN [date_str |-> JoinDates(ecmwf), is_exception |-> TRUE]
        ELSE IF name = "ukmo" /\ key \in DOMAIN exc.ukmo
        THEN [date_str |-> exc.ukmo[key], is_exception |-> TRUE]
        ELSE IF name = "cma" /\ key \in DOMAIN exc.cma
        THEN [date_str |-> exc.cma[key], is_exception |-> TRUE]
        ELSE IF name = "cma" /\ cma # <<>>
        THEN [date_str |-> JoinDates(cma), is_exception |-> TRUE]
        ELSE [date_str |-> DenseRange(year, month, num_days),
              is_exception |-> FALSE]

(***************************************************************************)
(* Files of the output directory.  A file is a record; its path is made of *)
(* t (the kind), i (fragment number), w (year, month) and d (the date);    *)
(* src and data describe its content.                                      *)
(***************************************************************************)
\* temp_{s2s_name}_{i}.grib, holding the fragment retrieved for window src
Grib(i, src) ==
    [t |-> "grib", i |-> i, w |-> NoWin, d |-> NoDay, src |-> src, data |-> TRUE]

\* the index file cfgrib leaves next to temp_{s2s_name}_{i}.grib
Idx(i) ==
    [t |-> "idx", i |-> i, w |-> NoWin, d |-> NoDay, src |-> NoWin, data |-> TRUE]

\* {name}_full_{res}deg_{year}{month}.nc
Nc(w) ==
    [t |-> "nc", i |-> 0, w |-> w, d |-> NoDay, src |-> w, data |-> TRUE]

\* {name}_full_{res}deg_{yy}{mm}{dd}.zarr
Zarr(d, data) ==
    [t |-> "zarr", i |-> 0, w |-> NoWin, d |-> d, src |-> <<d[1], d[2]>>,
     data |-> data]

\* {name}_full_{res}deg_{yy}{mm}{dd}.zarr.zip
Zip(d) ==
    [t |-> "zip", i |-> 0, w |-> NoWin, d |-> d, src |-> <<d[1], d[2]>>,
     data |-> TRUE]

Path(f) == <<f.t, f.i, f.w, f.d>>

Exists(files, path) == \E f \in files : Path(f) = path

\* writing a file replaces whatever was at its path
WriteFile(files, f) == {g \in files : Path(g) # Path(f)} \cup {f}

Unlink(files, paths) == {g \in files : Path(g) \notin paths}

\* output_dir.glob(f'{name}_full_1.5deg_{year}{month}*.zarr')
GlobZarr(files, year, month) ==
    {f \in files : f.t = "zarr" /\ f.d[1] = year /\ f.d[2] = month}

\* output_dir.glob('*.idx')
GlobIdx(files) == {f \in files : f.t = "idx"}

\* the daily partitions of a window present in the output directory
DailyPartitions(files, w) ==
    {f \in files : f.t \in {"zarr", "zip"} /\ f.d[1] = w[1] /\ f.d[2] = w[2]}

(***************************************************************************)
(* Datasets: the time coordinate (datetimes) and, per time, whether the    *)
(* slice carries data or is null.                                          *)
(***************************************************************************)
\* pd.date_range(first, last): one datetime per day
date_range(first, last) ==
    [k \in 1..(strptime(last) - strptime(first) + 1) |-> strptime(first) + k - 1]

\* the datetimes a retrieval request selects
RequestedTimes(sel) ==
    IF sel.kind = "range"
    THEN {strptime(sel.dates[1]) + k :
             k \in 0..(strptime(sel.dates[2]) - strptime(sel.dates[1]))}
    ELSE {strptime(sel.dates[k]) : k \in DOMAIN sel.dates}

\* the dataset opened from the fragments of one request: times ascending
OpenDataset(sel) ==
    LET ts == RequestedTimes(sel)
        lo == CHOOSE a \in ts : \A b \in ts : a <= b
        hi == CHOOSE a \in ts : \A b \in ts : a >= b
        tm == SelectSeq([k \in 1..(hi - lo + 1) |-> lo + k - 1],
                        LAMBDA x : x \in ts)
    IN  [time |-> tm, has_data |-> [k \in DOMAIN tm |-> TRUE]]

\* full_ds.reindex(time=index): the new index, null where there was no data
reindex(dataset, index) ==
    [time     |-> index,
     has_data |-> [k \in DOMAIN index |->
                     \E j \in DOMAIN dataset.time :
                        dataset.time[j] = index[k] /\ dataset.has_data[j]]]

\* variant of HarmonizedDataset: the merged dataset is not reindexed
HarmonizedDataset_sparse(sel, year, month) == OpenDataset(sel)

\* merge of the fragments followed by the densification of the dates
HarmonizedDataset(sel, year, month) ==
    LET num_days   == monthrange(year, month)
        dense_days == date_range(<<year, month, 1>>, <<year, month, num_days>>)
    IN  reindex(OpenDataset(sel), dense_days)

\* the reanalysis retrieved for every day of config.DAYS valid in the month
ReanalysisDataset(year, month) ==
    OpenDataset(DenseRange(year, month, monthrange(year, month)))

\* ds.time[n_idx].dt.strftime('%Y-%m-%d').item().split('-')
PartitionKey(dataset, n) == strftime(dataset.time[n])

(***************************************************************************)
(* A run of a script: the loops over the years and the months.             *)
(***************************************************************************)
Win == <<YEARS[yi], MONTHS[mi]>>

InLoop == yi >= 1 /\ yi <= Len(YEARS)

Stopped == pc \in {"stopped", "done", "aborted"}

\* the next iteration of "for year ...: for month ...:"
Advance ==
    /\ mi' = IF mi < Len(MONTHS) THEN mi + 1 ELSE 1
    /\ yi' = IF mi < Len(MONTHS) THEN yi ELSE yi + 1

ClearLocals ==
    /\ date_str' = None /\ is_exception' = FALSE /\ temp_files' = <<>>
    /\ ds' = None /\ n_idx' = 0

Init ==
    /\ s_start = <<>> /\ s_end = None /\ s_out = <<>>
    /\ script \in {"s2s", "era5", "atmos"}
    /\ s2s_name \in IF script = "s2s" THEN S2S_CENTERS ELSE {"none"}
    /\ \E wc \in WindowChoices :
          /\ YEARS = wc[1]
          /\ MONTHS = wc[2]
          /\ EXCEPTIONS \in IF script = "s2s"
                            THEN ExceptionChoices(wc[1], wc[2])
                            ELSE {[ecmwf |-> <<>>, ukmo |-> <<>>, cma |-> <<>>]}
    /\ n_param_level \in IF script = "s2s" THEN 1..MaxParams ELSE {0}
    /\ fs = {} /\ pc = "stopped" /\ yi = 0 /\ mi = 0
    /\ date_str = None /\ is_exception = FALSE /\ temp_files = <<>>
    /\ ds = None /\ n_idx = 0
    /\ retrieved = {} /\ skipped = {} /\ completed = {}
    /\ completed_before = {} /\ last_request = <<>> /\ last_plan = NoPlan
    /\ written = <<>>

\* the script is started (for the first time, or again after a run ended)
StartRun ==
    /\ Stopped
    /\ pc' = "loop" /\ yi' = 1 /\ mi' = 1
    /\ ClearLocals
    /\ retrieved' = {} /\ skipped' = {} /\ completed_before' = completed
    /\ last_request' = <<>> /\ last_plan' = NoPlan /\ written' = <<>>
    /\ UNCHANGED <<fs, completed, sched_vars, cfg_vars>>

\* the process is interrupted; the output directory stays as it is
Crash ==
    /\ ~Stopped
    /\ pc' = "stopped" /\ yi' = 0 /\ mi' = 0
    /\ ClearLocals
    /\ UNCHANGED <<fs, retrieved, skipped, completed, completed_before,
                   last_request, last_plan, written, sched_vars, cfg_vars>>

\* both loops are exhausted
Finish ==
    /\ pc = "loop" /\ ~InLoop
    /\ pc' = "done"
    /\ UNCHANGED <<fs, yi, mi, date_str, is_exception, temp_files, ds, n_idx,
                   retrieved, skipped, completed, completed_before,
                   last_request, last_plan, written, sched_vars, cfg_vars>>

\* "continue" / "pass": the window is skipped
SkipWindow(had) ==
    /\ Advance
    /\ skipped' = skipped \cup {Win}
    /\ last_plan' = [w |-> Win, skipped |-> TRUE, had_partition |-> had]
    /\ UNCHANGED <<fs, pc, date_str, is_exception, temp_files, ds, n_idx,
                   retrieved, completed, completed_before, last_request,
                   written, sched_vars, cfg_vars>>

(***************************************************************************)
(* download_s2s.main                                                       *)
(***************************************************************************)
\* variant of S2SWindowDone: the glob looks for zipped partitions
S2SWindowDone_zip(files, year, month) ==
    {f \in files : f.t = "zip" /\ f.d[1] = year /\ f.d[2] = month} # {}

\* len(output_files) > 0
S2SWindowDone(files, year, month) == GlobZarr(files, year, month) # {}

\* skip check and construction of the date string
S2SPlan ==
    /\ script = "s2s" /\ pc = "loop" /\ InLoop
    /\ LET had == DailyPartitions(fs, Win) # {}
       IN  IF S2SWindowDone(fs, Win[1], Win[2])
           THEN SkipWindow(had)
           ELSE LET sel == DateSelector(s2s_name, Win[1], Win[2], EXCEPTIONS)
                IN  /\ date_str' = sel.date_str
                    /\ is_exception' = sel.is_exception
                    /\ temp_files' = <<>>
                    /\ pc' = "retrieve"
                    /\ written' = <<>>
                    /\ last_request' = <<>>
                    /\ last_plan' = [w |-> Win, skipped |-> FALSE,
                                     had_partition |-> had]
                    /\ UNCHANGED <<fs, yi, mi, ds, n_idx, retrieved, skipped,
                                   completed, completed_before, sched_vars,
                                   cfg_vars>>

\* one iteration of the loop over config.S2S_PARAM_LEVEL: server.retrieve
S2SRetrieve ==
    /\ script = "s2s" /\ pc = "retrieve"
    /\ Len(temp_files) < n_param_level
    /\ LET i == Len(temp_files)
       IN  /\ fs' = WriteFile(fs, Grib(i, Win))
           /\ temp_files' = Append(temp_files, i)
           /\ last_request' = Append(last_request,
                                     [w |-> Win, i |-> i, date |-> date_str])
    /\ retrieved' = retrieved \cup {Win}
    /\ UNCHANGED <<pc, yi, mi, date_str, is_exception, ds, n_idx, skipped,
                   completed, completed_before, last_plan, written,
                   sched_vars, cfg_vars>>

\* variant of FragmentCountOk: at least three fragments are accepted
FragmentCountOk_at_least(files) == Len(files) >= 3

\* assert len(temp_files) == 3
FragmentCountOk(files) == Len(files) = 3

S2SCheckFragments ==
    /\ script = "s2s" /\ pc = "retrieve"
    /\ Len(temp_files) = n_param_level
    /\ pc' = IF FragmentCountOk(temp_files) THEN "merge" ELSE "aborted"
    /\ UNCHANGED <<fs, yi, mi, date_str, is_exception, temp_files, ds, n_idx,
                   retrieved, skipped, completed, completed_before,
                   last_request, last_plan, written, sched_vars, cfg_vars>>

\* open the three fragments, merge, rename, densify the dates
S2SMerge ==
    /\ script = "s2s" /\ pc = "merge"
    /\ fs' = fs \cup {Idx(temp_files[k]) : k \in 1..3}
    /\ ds' = HarmonizedDataset(date_str, Win[1], Win[2])
    /\ pc' = "to_netcdf"
    /\ UNCHANGED <<yi, mi, date_str, is_exception, temp_files, n_idx,
                   retrieved, skipped, completed, completed_before,
                   last_request, last_plan, written, sched_vars, cfg_vars>>

\* full_ds.to_netcdf(output_nc_file)
S2SSaveNc ==
    /\ script = "s2s" /\ pc = "to_netcdf"
    /\ fs' = WriteFile(fs, Nc(Win))
    /\ pc' = "unlink_temp"
    /\ UNCHANGED <<yi, mi, date_str, is_exception, temp_files, ds, n_idx,
                   retrieved, skipped, completed, completed_before,
                   last_request, last_plan, written, sched_vars, cfg_vars>>

\* for temp_file in temp_files: temp_file.unlink()
S2SUnlinkTemp ==
    /\ script = "s2s" /\ pc = "unlink_temp"
    /\ fs' = Unlink(fs, {Path(Grib(temp_files[k], Win)) : k \in DOMAIN temp_files})
    /\ pc' = "unlink_idx"
    /\ UNCHANGED <<yi, mi, date_str, is_exception, temp_files, ds, n_idx,
                   retrieved, skipped, completed, completed_before,
                   last_request, last_plan, written, sched_vars, cfg_vars>>

\* the idx files are removed and the window file is opened again
S2SUnlinkIdx ==
    /\ script = "s2s" /\ pc = "unlink_idx"
    /\ fs' = Unlink(fs, {Path(f) : f \in GlobIdx(fs)})
    /\ pc' = "write" /\ n_idx' = 0
    /\ UNCHANGED <<yi, mi, date_str, is_exception, temp_files, ds,
                   retrieved, skipped, completed, completed_before,
                   last_request, last_plan, written, sched_vars, cfg_vars>>

\* one iteration of "for n_idx in range(n_timesteps)": subset_ds.to_zarr
S2SWriteDay ==
    /\ script = "s2s" /\ pc = "write"
    /\ n_idx < Len(ds.time)
    /\ LET key == PartitionKey(ds, n_idx + 1)
           f   == Zarr(key, ds.has_data[n_idx + 1])
       IN  IF Exists(fs, Path(f))
           THEN /\ pc' = "aborted"
                /\ UNCHANGED <<fs, n_idx, written>>
           ELSE /\ fs' = WriteFile(fs, f)
                /\ written' = Append(written, key)
                /\ n_idx' = n_idx + 1
                /\ pc' = pc
    /\ UNCHANGED <<yi, mi, date_str, is_exception, temp_files, ds,
                   retrieved, skipped, completed, completed_before,
                   last_request, last_plan, sched_vars, cfg_vars>>

\* variant of S2SUnlinkNc: the window file is removed before the partitions
\* are written
S2SUnlinkNc_early ==
    /\ script = "s2s" /\ pc = "write"
    /\ n_idx = 0
    /\ fs' = Unlink(fs, {Path(Nc(Win))})
    /\ completed' = completed \cup {Win}
    /\ pc' = "loop"
    /\ Advance
    /\ UNCHANGED <<date_str, is_exception, temp_files, ds, n_idx,
                   retrieved, skipped, completed_before,
                   last_request, last_plan, written, sched_vars, cfg_vars>>

\* output_nc_file.unlink(), end of the window
S2SUnlinkNc ==
    /\ script = "s2s" /\ pc = "write"
    /\ n_idx = Len(ds.time)
    /\ fs' = Unlink(fs, {Path(Nc(Win))})
    /\ completed' = completed \cup {Win}
    /\ pc' = "loop"
    /\ Advance
    /\ UNCHANGED <<date_str, is_exception, temp_files, ds, n_idx,
                   retrieved, skipped, completed_before,
                   last_request, last_plan, written, sched_vars, cfg_vars>>

(***************************************************************************)
(* download_era5.main                                                      *)
(***************************************************************************)
\* output_file.exists()
Era5WindowDone(files, w) == Exists(files, Path(Nc(w)))

\* a window is entered (last_plan records what the skip check saw)
EnterWindow(had) ==
    /\ pc' = "retrieve"
    /\ written' = <<>>
    /\ last_request' = <<>>
    /\ last_plan' = [w |-> Win, skipped |-> FALSE, had_partition |-> had]
    /\ UNCHANGED <<fs, yi, mi, date_str, is_exception, temp_files, ds, n_idx,
                   retrieved, skipped, completed, completed_before,
                   sched_vars, cfg_vars>>

Era5Plan ==
    /\ script = "era5" /\ pc = "loop" /\ InLoop
    /\ LET had == DailyPartitions(fs, Win) # {}
       IN  IF Era5WindowDone(fs, Win) THEN SkipWindow(had) ELSE EnterWindow(had)

\* c.retrieve(..., output_file); ds = xr.open_dataset(output_file)
Era5Retrieve ==
    /\ script = "era5" /\ pc = "retrieve"
    /\ fs' = WriteFile(fs, Nc(Win))
    /\ ds' = ReanalysisDataset(Win[1], Win[2])
    /\ retrieved' = retrieved \cup {Win}
    /\ last_request' = Append(last_request,
                              [w |-> Win, i |-> 0,
                               date |-> DenseRange(Win[1], Win[2],
                                                   monthrange(Win[1], Win[2]))])
    /\ pc' = "write" /\ n_idx' = 0
    /\ UNCHANGED <<yi, mi, date_str, is_exception, temp_files, skipped,
                   completed, completed_before, last_plan, written,
                   sched_vars, cfg_vars>>

\* one iteration of "for n_idx in range(n_timesteps)": subset_ds.to_zarr,
\* which raises when the store already exists
Era5WriteDay ==
    /\ script = "era5" /\ pc = "write"
    /\ n_idx < Len(ds.time)
    /\ LET key == PartitionKey(ds, n_idx + 1)
           f   == Zarr(key, ds.has_data[n_idx + 1])
       IN  IF Exists(fs, Path(f))
           THEN /\ pc' = "aborted"
                /\ UNCHANGED <<fs, n_idx, written>>
           ELSE /\ fs' = WriteFile(fs, f)
                /\ written' = Append(written, key)
                /\ n_idx' = n_idx + 1
                /\ pc' = pc
    /\ UNCHANGED <<yi, mi, date_str, is_exception, temp_files, ds,
                   retrieved, skipped, completed, completed_before,
                   last_request, last_plan, sched_vars, cfg_vars>>

\* output_file.unlink(), end of the window
Era5UnlinkNc ==
    /\ script = "era5" /\ pc = "write"
    /\ n_idx = Len(ds.time)
    /\ fs' = Unlink(fs, {Path(Nc(Win))})
    /\ completed' = completed \cup {Win}
    /\ pc' = "loop"
    /\ Advance
    /\ UNCHANGED <<date_str, is_exception, temp_files, ds, n_idx,
                   retrieved, skipped, completed_before,
                   last_request, last_plan, written, sched_vars, cfg_vars>>

(***************************************************************************)
(* process_atmos.main (all runs of a behaviour use the same resolution)    *)
(***************************************************************************)
\* processed_sample_file.exists()
AtmosWindowDone(files, w) == Exists(files, Path(Zip(<<w[1], w[2], 1>>)))

AtmosPlan ==
    /\ script = "atmos" /\ pc = "loop" /\ InLoop
    /\ LET had == DailyPartitions(fs, Win) # {}
       IN  IF AtmosWindowDone(fs, Win) THEN SkipWindow(had) ELSE EnterWindow(had)

\* c.retrieve(..., output_file); ds = xr.open_dataset(output_file)
AtmosRetrieve ==
    /\ script = "atmos" /\ pc = "retrieve"
    /\ fs' = WriteFile(fs, Nc(Win))
    /\ ds' = ReanalysisDataset(Win[1], Win[2])
    /\ retrieved' = retrieved \cup {Win}
    /\ last_request' = Append(last_request,
                              [w |-> Win, i |-> 0,
                               date |-> DenseRange(Win[1], Win[2],
                                                   monthrange(Win[1], Win[2]))])
    /\ pc' = "to_zarr" /\ n_idx' = 0
    /\ UNCHANGED <<yi, mi, date_str, is_exception, temp_files, skipped,
                   completed, completed_before, last_plan, written,
                   sched_vars, cfg_vars>>

\* subset.to_zarr(output_daily_file), for the next day of the groupby
AtmosToZarr ==
    /\ script = "atmos" /\ pc = "to_zarr"
    /\ n_idx < Len(ds.time)
    /\ LET f == Zarr(PartitionKey(ds, n_idx + 1), ds.has_data[n_idx + 1])
       IN  IF Exists(fs, Path(f))
           THEN pc' = "aborted" /\ fs' = fs
           ELSE pc' = "zip" /\ fs' = WriteFile(fs, f)
    /\ UNCHANGED <<yi, mi, date_str, is_exception, temp_files, ds, n_idx,
                   retrieved, skipped, completed, completed_before,
                   last_request, last_plan, written, sched_vars, cfg_vars>>

\* subprocess.run(['zip', '-0', '-r', str(zip_file), '.'], ...)
AtmosZip ==
    /\ script = "atmos" /\ pc = "zip"
    /\ LET key == PartitionKey(ds, n_idx + 1)
       IN  /\ fs' = WriteFile(fs, Zip(key))
           /\ written' = Append(written, key)
    /\ pc' = "rmtree"
    /\ UNCHANGED <<yi, mi, date_str, is_exception, temp_files, ds, n_idx,
                   retrieved, skipped, completed, completed_before,
                   last_request, last_plan, sched_vars, cfg_vars>>

\* shutil.rmtree(output_daily_file)
AtmosRmtree ==
    /\ script = "atmos" /\ pc = "rmtree"
    /\ fs' = Unlink(fs, {Path(Zarr(PartitionKey(ds, n_idx + 1), TRUE))})
    /\ n_idx' = n_idx + 1
    /\ pc' = "to_zarr"
    /\ UNCHANGED <<yi, mi, date_str, is_exception, temp_files, ds,
                   retrieved, skipped, completed, completed_before,
                   last_request, last_plan, written, sched_vars, cfg_vars>>

\* output_file.unlink(), end of the window
AtmosUnlinkNc ==
    /\ script = "atmos" /\ pc = "to_zarr"
    /\ n_idx = Len(ds.time)
    /\ fs' = Unlink(fs, {Path(Nc(Win))})
    /\ completed' = completed \cup {Win}
    /\ pc' = "loop"
    /\ Advance
    /\ UNCHANGED <<date_str, is_exception, temp_files, ds, n_idx,
                   retrieved, skipped, completed_before,
                   last_request, last_plan, written, sched_vars, cfg_vars>>

(***************************************************************************)
(* Specification of the pipelines.                                         *)
(***************************************************************************)
Next ==
    \/ StartRun \/ Crash \/ Finish
    \/ S2SPlan \/ S2SRetrieve \/ S2SCheckFragments \/ S2SMerge \/ S2SSaveNc
    \/ S2SUnlinkTemp \/ S2SUnlinkIdx \/ S2SWriteDay \/ S2SUnlinkNc
    \/ Era5Plan \/ Era5Retrieve \/ Era5WriteDay \/ Era5UnlinkNc
    \/ AtmosPlan \/ AtmosRetrieve \/ AtmosToZarr \/ AtmosZip \/ AtmosRmtree
    \/ AtmosUnlinkNc

Spec == Init /\ [][Next]_vars

(***************************************************************************)
(* Vocabulary of the properties.                                           *)
(***************************************************************************)
\* the calendar days of a window: the dates that denote themselves
CalendarDays(w) ==
    {d \in {<<w[1], w[2], k>> : k \in 1..31} : strftime(strptime(d)) = d}

\* the last calendar day of a month: the day before a first of the month
LastDay(year, month) ==
    CHOOSE k \in 28..31 : strftime(strptime(<<year, month, k>>) + 1)[3] = 1

Windows == {<<YEARS[a], MONTHS[b]>> : a \in DOMAIN YEARS, b \in DOMAIN MONTHS}

\* the S2S script is between the skip check and the end of a window
S2SProcessing ==
    /\ script = "s2s"
    /\ pc \in {"retrieve", "merge", "to_netcdf", "unlink_temp", "unlink_idx",
               "write"}

\* the days of window w that have a partition in the output directory
DaysPresent(files, w) == {f.d : f \in GlobZarr(files, w[1], w[2])}

\* some, but not all, partitions of window w are in the output directory
Partial(files, w) ==
    DaysPresent(files, w) # {} /\ DaysPresent(files, w) # CalendarDays(w)

Jan2016 ==
    << <<2016, 1, 4>>, <<2016, 1, 7>>, <<2016, 1, 11>>, <<2016, 1, 14>>,
       <<2016, 1, 18>>, <<2016, 1, 21>>, <<2016, 1, 25>>, <<2016, 1, 28>> >>

(***************************************************************************)
(* C1.  The scheduler called with start 2016-01-04 and end 2016-01-31.     *)
(***************************************************************************)
\* C1 (as claimed): started on 2016-01-04 with end date 2016-01-31, the
\* scheduler returns exactly the eight dates 01-04, 01-07, 01-11, 01-14,
\* 01-18, 01-21, 01-25, 01-28 of January 2016 and no further element.
C1_EightDates ==
    \A k \in DOMAIN s_out :
        (s_start[k] = <<2016, 1, 4>> /\ s_end = <<2016, 1, 31>>)
            => s_out[k] = Jan2016

\* C1 (amended): started on 2016-01-04 with end date 2016-01-31, the
\* scheduler returns exactly nine dates: the eight dates of January 2016
\* followed by the overshoot date 2016-02-01.
C1_NineDates ==
    \A k \in DOMAIN s_out :
        (s_start[k] = <<2016, 1, 4>> /\ s_end = <<2016, 1, 31>>)
            => s_out[k] = Append(Jan2016, <<2016, 2, 1>>)

C1_Witness ==
    /\ Len(s_out) >= 1
    /\ s_start[1] = <<2016, 1, 4>> /\ s_end = <<2016, 1, 31>>
    /\ Len(s_out[1]) = 9

(***************************************************************************)
(* C2.  The scheduler against the reference sequence.                      *)
(***************************************************************************)
\* C2: for every start date <= end date, every call (the first and the
\* second alike) returns the sequence that begins with the start date,
\* advances by increments [3,4] taken cyclically from the first one, and
\* is cut right after the first date greater than the end date: the last
\* element is greater than the end date, every earlier one is not.
C2_ReferenceSequence ==
    \A k \in DOMAIN s_out :
        strptime(s_start[k]) <= strptime(s_end) =>
            LET out == s_out[k]
                n   == Len(out)
                L   == Len(increments0)
            IN  /\ n >= 2
                /\ out[1] = s_start[k]
                /\ \A i \in 1..(n - 1) :
                      /\ strptime(out[i + 1]) =
                            strptime(out[i]) + increments0[((i - 1) % L) + 1]
                      /\ strptime(out[i]) <= strptime(s_end)
                /\ strptime(out[n]) > strptime(s_end)

\* both calls made, the second from another start date, after a first call
\* that applied an odd number of increments
C2_Witness ==
    /\ Len(s_out) = 2
    /\ s_start[1] # s_start[2]
    /\ strptime(s_start[2]) <= strptime(s_end)
    /\ Len(s_out[1]) % 2 = 0
    /\ Len(s_out[2]) > 2

(***************************************************************************)
(* C3.  A second run retrieves nothing for a completed window.             *)
(***************************************************************************)
\* C3: in each of the three pipelines, a window that an earlier run has
\* processed to completion is not retrieved again by a later run.
C3_NoSecondRetrieval == completed_before \cap retrieved = {}

(***************************************************************************)
(* C4.  A window is skipped iff one of its daily partitions exists.        *)
(***************************************************************************)
\* C4: in each pipeline, when a window is planned it is skipped if and only
\* if at least one daily partition of that window is in the output
\* directory, whichever day it is.
C4_SkipIffPartition ==
    last_plan # NoPlan => (last_plan.skipped <=> last_plan.had_partition)

(***************************************************************************)
(* C5.  Exception entries take precedence over the generated dates.        *)
(***************************************************************************)
\* C5: for every provider and every window whose year-month key is in the
\* provider's exceptions table, the date selector of every retrieval
\* request is the table's value, not the generated date sequence.
C5_ExceptionVerbatim ==
    script = "s2s" =>
        \A k \in DOMAIN last_request :
            last_request[k].w \in DOMAIN ExceptionTable(s2s_name) =>
                last_request[k].date =
                    ExceptionTable(s2s_name)[last_request[k].w]

\* an ecmwf window with an exception entry and generated dates is requested
C5_Witness ==
    /\ script = "s2s" /\ s2s_name = "ecmwf" /\ pc = "merge"
    /\ last_request # <<>>
    /\ Win \in DOMAIN ExceptionTable(s2s_name)
    /\ curr_mmyy_dates(all_ecmwf_dates, Win[1], Win[2]) # <<>>

(***************************************************************************)
(* C6.  Providers without sparse scheduling get the dense selector.        *)
(***************************************************************************)
\* the selector from day 01 to the last calendar day, exception flag unset
DenseSelected ==
    /\ date_str = [kind |-> "range",
                   dates |-> <<<<Win[1], Win[2], 1>>,
                               <<Win[1], Win[2], LastDay(Win[1], Win[2])>>>>]
    /\ is_exception = FALSE
    /\ \A k \in DOMAIN last_request : last_request[k].date = date_str

\* C6 (as claimed): for every provider other than ecmwf and cma and for every
\* window, the date selector is the dense range from day 01 to the last
\* calendar day of the month and the exception flag is false.
C6_AlwaysDense ==
    (S2SProcessing /\ s2s_name \notin {"ecmwf", "cma"}) => DenseSelected

\* C6 (amended): for every provider other than ecmwf and cma and for every
\* window whose year-month key is not in the provider's exceptions table,
\* the date selector is the dense range from day 01 to the last calendar
\* day of the month and the exception flag is false.
C6_DenseUnlessException ==
    (/\ S2SProcessing
     /\ s2s_name \notin {"ecmwf", "cma"}
     /\ Win \notin DOMAIN ExceptionTable(s2s_name)) => DenseSelected

\* a leap February without exception entry has been requested by ukmo/ncep
C6_Witness ==
    /\ S2SProcessing /\ s2s_name \in {"ukmo", "ncep"}
    /\ Win = <<2016, 2>>
    /\ Win \notin DOMAIN ExceptionTable(s2s_name)
    /\ last_request # <<>>

(***************************************************************************)
(* C7.  A sparse window yields one partition per calendar day.             *)
(***************************************************************************)
\* C7: when the S2S pipeline has written the last partition of a window
\* whose exception flag is set, the partitions written for the window are
\* exactly one per calendar day of the month, each keyed by its own date,
\* the days that were not requested included.
C7_OnePartitionPerDay ==
    (script = "s2s" /\ pc = "write" /\ n_idx = Len(ds.time) /\ is_exception)
        => /\ Len(written) = Cardinality(CalendarDays(Win))
           /\ {written[k] : k \in DOMAIN written} = CalendarDays(Win)
           /\ DaysPresent(fs, Win) = CalendarDays(Win)

\* a sparse window, requested for fewer dates than the month has days, has
\* been written completely
C7_Witness ==
    /\ script = "s2s" /\ pc = "write" /\ n_idx = Len(ds.time) /\ is_exception
    /\ date_str.kind = "list"
    /\ Len(date_str.dates) < Cardinality(CalendarDays(Win))
    /\ \E f \in GlobZarr(fs, Win[1], Win[2]) : ~f.data

(***************************************************************************)
(* C8.  The fragment-count check.                                          *)
(***************************************************************************)
\* the step that performs the fragment-count check
CheckStep == script = "s2s" /\ pc = "retrieve" /\ pc' \in {"merge", "aborted"}

\* C8 (as claimed): the run aborts before the merge whenever the number of
\* fragments differs from the number of entries of the variable-level map,
\* and the check lets the run continue whenever the two numbers are equal,
\* whatever the size of the map.
C8_CheckAgainstMap ==
    [][CheckStep => (pc' = "merge" <=> Len(temp_files) = n_param_level)]_vars

\* C8 (amended): the number of fragments collected always equals the number
\* of entries of the map; the run aborts before the merge whenever that
\* number differs from 3, and the check lets the run continue when it is 3.
C8_CheckAgainstThree ==
    [][CheckStep => /\ Len(temp_files) = n_param_level
                    /\ pc' = "merge" <=> Len(temp_files) = 3]_vars

\* the check has aborted a run whose map has more than three entries
C8_Witness ==
    /\ script = "s2s" /\ pc = "aborted"
    /\ n_param_level > 3 /\ Len(temp_files) = n_param_level

(***************************************************************************)
(* C9.  Deletion of the transient files of a window.                       *)
(***************************************************************************)
\* file f is removed by the step
Deleted(f) == f \in fs /\ ~Exists(fs', Path(f))

\* the last daily partition of the current window has been written
LastPartitionWritten ==
    /\ pc = "write" /\ n_idx = Len(ds.time)
    /\ DaysPresent(fs, Win) = CalendarDays(Win)

\* C9 (as claimed): in the S2S pipeline no transient file of a window (raw
\* fragment, index side-file, whole-window file) is deleted before the last
\* daily partition of the window has been written, and only files of that
\* window are deleted.
C9_DeleteAfterLastPartition ==
    [][script = "s2s" =>
         \A f \in fs :
            (f.t \in {"grib", "idx", "nc"} /\ Deleted(f)) =>
                /\ LastPartitionWritten
                /\ f.t \in {"grib", "nc"} => f.src = Win]_vars

\* C9 (amended): in the S2S pipeline the whole-window file of a window is
\* deleted only after the last daily partition of the window has been
\* written; the raw fragment files and the index side-files are deleted
\* earlier, once the whole-window file has been saved and before the first
\* daily partition is written.  The fragment files and the whole-window
\* file deleted are those of that window; the index side-files deleted are
\* all those of the output directory.
C9_OnlyWindowFileAfterPartitions ==
    [][script = "s2s" =>
         \A f \in fs :
            (f.t \in {"grib", "idx", "nc"} /\ Deleted(f)) =>
                /\ f.t = "nc" => (LastPartitionWritten /\ f.src = Win)
                /\ f.t = "grib" => f.src = Win
                /\ f.t \in {"grib", "idx"} =>
                      /\ Exists(fs, Path(Nc(Win)))
                      /\ DaysPresent(fs, Win) = {}]_vars

\* a window has been completed and all its transient files are gone
C9_Witness ==
    /\ script = "s2s" /\ pc = "loop" /\ completed # {}
    /\ written # <<>>
    /\ \A f \in fs : f.t = "zarr"

(***************************************************************************)
(* C10.  A partially written window is never resumed.                      *)
(***************************************************************************)
\* window w is being processed by the running S2S script
Processing(w) == S2SProcessing /\ Win = w

\* C10: once a run of the S2S pipeline has been interrupted after writing
\* some but not all daily partitions of a window, no later run retrieves the
\* window or processes it, and its set of partitions never changes again.
C10_PartialNeverResumed ==
    [][script = "s2s" =>
         \A w \in Windows :
            (Partial(fs, w) /\ ~Processing(w)) =>
                /\ GlobZarr(fs', w[1], w[2]) = GlobZarr(fs, w[1], w[2])
                /\ ~Processing(w)'
                /\ w \notin retrieved' \ retrieved]_vars

\* a later run has skipped a window left partially written
C10_Witness ==
    /\ script = "s2s" /\ pc # "stopped"
    /\ \E w \in Windows : Partial(fs, w) /\ w \in skipped /\ w \notin retrieved

====
